---- MODULE Spec2Model ----
(***************************************************************************)
(* The interview simulation of app.py and models.py: the start handler     *)
(* (index), the answer handler (submit_answer), the evaluation of an       *)
(* answer (mock, provider, degraded) and the Interview and Answer tables.  *)
(*                                                                         *)
(* Python values that travel through JSON (the request body, the provider  *)
(* reply, the parsed evaluation) are tagged records, so that None, "", a   *)
(* dict and a list stay distinct.  A dict is a sequence of [k, v] pairs in *)
(* insertion order.  A text (the provider reply, the serialized STAR       *)
(* flags) is a sequence of lexical tokens; slicing counts tokens.          *)
(***************************************************************************)
EXTENDS Integers, Sequences, FiniteSets, TLC

VARIABLES interviews, answers, model, req, call, resp

vars == <<interviews, answers, model, req, call, resp>>

(* ---------------------------------------------------------------- bounds *)
MaxInterviews == 1
MaxAnswers == 1

(* ------------------------------------------------------- Python values *)
PyNone == [ty |-> "NoneType"]
PyStr(s) == [ty |-> "str", s |-> s]
PyFStr(parts) == [ty |-> "str", fmt |-> parts]
PyInt(n) == [ty |-> "int", n |-> n]
PyBool(b) == [ty |-> "bool", b |-> b]
PyDict(items) == [ty |-> "dict", items |-> items]
PyList(items) == [ty |-> "list", elems |-> items]

(* bool(v) of Python, as `all` and `not` apply it *)
Truthy(v) ==
    CASE v.ty = "NoneType" -> FALSE
      [] v.ty = "str" -> ("fmt" \in DOMAIN v) \/ v.s # ""
      [] v.ty = "int" -> v.n # 0
      [] v.ty = "bool" -> v.b
      [] v.ty = "dict" -> v.items # <<>>
      [] v.ty = "list" -> v.elems # <<>>

HasKey(items, k) == \E i \in 1..Len(items) : items[i].k = k

(* dict.get(k, default) *)
DictGet(items, k, default) ==
    IF HasKey(items, k)
    THEN items[CHOOSE i \in 1..Len(items) : items[i].k = k].v
    ELSE default

(* d[k] = v : a present key keeps its position *)
DictSet(items, k, v) ==
    IF HasKey(items, k)
    THEN [i \in 1..Len(items) |-> IF items[i].k = k THEN [k |-> k, v |-> v] ELSE items[i]]
    ELSE Append(items, [k |-> k, v |-> v])

KV(k, v) == [k |-> k, v |-> v]

(* ------------------------------------------------------------ JSON text *)
P(c) == [t |-> "punct", c |-> c]
S(s) == [t |-> "str", s |-> s]
N(n) == [t |-> "num", n |-> n]
W(w) == [t |-> "word", w |-> w]
WS == [t |-> "ws"]

ParseFail == [ok |-> FALSE, val |-> PyNone, next |-> 0]

RECURSIVE ParseValue(_, _), ParseMembers(_, _, _), ParseElements(_, _, _)

(* one "key": value pair at i, then "," and more pairs, or "}" *)
ParseMembers(t, i, items) ==
    IF i + 1 > Len(t) \/ t[i].t # "str" \/ t[i + 1] # P(":") THEN ParseFail
    ELSE LET r == ParseValue(t, i + 2) IN
         IF ~r.ok \/ r.next > Len(t) THEN ParseFail
         ELSE IF t[r.next] = P("}")
              THEN [ok |-> TRUE, val |-> PyDict(DictSet(items, t[i].s, r.val)),
                    next |-> r.next + 1]
         ELSE IF t[r.next] = P(",")
              THEN ParseMembers(t, r.next + 1, DictSet(items, t[i].s, r.val))
         ELSE ParseFail

ParseElements(t, i, elems) ==
    LET r == ParseValue(t, i) IN
    IF ~r.ok \/ r.next > Len(t) THEN ParseFail
    ELSE IF t[r.next] = P("]")
         THEN [ok |-> TRUE, val |-> PyList(Append(elems, r.val)), next |-> r.next + 1]
    ELSE IF t[r.next] = P(",")
         THEN ParseElements(t, r.next + 1, Append(elems, r.val))
    ELSE ParseFail

ParseValue(t, i) ==
    IF i > Len(t) THEN ParseFail
    ELSE CASE t[i].t = "num" -> [ok |-> TRUE, val |-> PyInt(t[i].n), next |-> i + 1]
           [] t[i].t = "str" -> [ok |-> TRUE, val |-> PyStr(t[i].s), next |-> i + 1]
           [] t[i] = W("true") -> [ok |-> TRUE, val |-> PyBool(TRUE), next |-> i + 1]
           [] t[i] = W("false") -> [ok |-> TRUE, val |-> PyBool(FALSE), next |-> i + 1]
           [] t[i] = W("null") -> [ok |-> TRUE, val |-> PyNone, next |-> i + 1]
           [] t[i] = P("{") ->
                IF i + 1 <= Len(t) /\ t[i + 1] = P("}")
                THEN [ok |-> TRUE, val |-> PyDict(<<>>), next |-> i + 2]
                ELSE ParseMembers(t, i + 1, <<>>)
           [] t[i] = P("[") ->
                IF i + 1 <= Len(t) /\ t[i + 1] = P("]")
                THEN [ok |-> TRUE, val |-> PyList(<<>>), next |-> i + 2]
                ELSE ParseElements(t, i + 1, <<>>)
           [] OTHER -> ParseFail

RECURSIVE SkipWs(_, _)
SkipWs(t, i) == IF i <= Len(t) /\ t[i] = WS THEN SkipWs(t, i + 1) ELSE i

RECURSIVE SkipWsBack(_, _)
SkipWsBack(t, j) == IF j >= 1 /\ t[j] = WS THEN SkipWsBack(t, j - 1) ELSE j

(* str.strip() *)
strip(t) == SubSeq(t, SkipWs(t, 1), SkipWsBack(t, Len(t)))

(* json.loads(text): the value, or ok = FALSE for json.JSONDecodeError *)
json_loads(text) ==
    LET b == strip(text)
        r == ParseValue(b, 1)
    IN IF r.ok /\ r.next = Len(b) + 1
       THEN [ok |-> TRUE, val |-> r.val]
       ELSE [ok |-> FALSE, val |-> PyNone]

RECURSIVE json_dumps(_), DumpItems(_, _), DumpElems(_, _)

DumpItems(items, i) ==
    IF i > Len(items) THEN <<>>
    ELSE (IF i > 1 THEN <<P(",")>> ELSE <<>>)
         \o <<S(items[i].k), P(":")>> \o json_dumps(items[i].v)
         \o DumpItems(items, i + 1)

DumpElems(elems, i) ==
    IF i > Len(elems) THEN <<>>
    ELSE (IF i > 1 THEN <<P(",")>> ELSE <<>>)
         \o json_dumps(elems[i]) \o DumpElems(elems, i + 1)

(* json.dumps(v) *)
json_dumps(v) ==
    CASE v.ty = "NoneType" -> <<W("null")>>
      [] v.ty = "str" -> <<S(v.s)>>
      [] v.ty = "int" -> <<N(v.n)>>
      [] v.ty = "bool" -> <<W(IF v.b THEN "true" ELSE "false")>>
      [] v.ty = "dict" -> <<P("{")>> \o DumpItems(v.items, 1) \o <<P("}")>>
      [] v.ty = "list" -> <<P("[")>> \o DumpElems(v.elems, 1) \o <<P("]")>>

(* ------------------------------------------------------ program tables *)
JOB_ROLES == {"Data Scientist", "Software Engineer", "IT Support", "UI/UX Designer"}

STAGES == {"HR", "Behavioral", "Technical"}

QUESTIONS ==
    [HR |->
       [r \in JOB_ROLES |->
          CASE r = "Data Scientist" ->
                 "Mengapa Anda tertarik melamar posisi Data Scientist di perusahaan ini?"
            [] r = "Software Engineer" ->
                 "Apa yang membuat Anda tertarik pada peran Software Engineer di tim kami?"
            [] r = "IT Support" ->
                 "Bagaimana Anda melihat peran IT Support dalam mendukung operasional perusahaan?"
            [] r = "UI/UX Designer" ->
                 "Apa motivasi Anda untuk berkarir sebagai UI/UX Designer dan mengapa di sini?"],
     Behavioral |->
       [r \in JOB_ROLES |->
          CASE r = "Data Scientist" ->
                 "Ceritakan pengalaman Anda menangani dataset besar dan bagaimana Anda mengatasinya (gunakan STAR)."
            [] r = "Software Engineer" ->
                 "Deskripsikan konflik tim yang Anda selesaikan (gunakan STAR)."
            [] r = "IT Support" ->
                 "Ceritakan saat Anda menangani masalah teknis mendadak (gunakan STAR)."
            [] r = "UI/UX Designer" ->
                 "Bagaimana Anda menangani feedback negatif dari user testing (gunakan STAR)?"],
     Technical |->
       [r \in JOB_ROLES |->
          CASE r = "Data Scientist" ->
                 "Jelaskan bagaimana Anda membangun model machine learning untuk prediksi penjualan."
            [] r = "Software Engineer" ->
                 "Bagaimana Anda mengoptimasi kode Python untuk performa tinggi?"
            [] r = "IT Support" ->
                 "Jelaskan langkah troubleshooting untuk jaringan yang down."
            [] r = "UI/UX Designer" ->
                 "Bagaimana Anda menggunakan tools seperti Figma untuk prototyping responsif?"]]

(* PROMPT_TEMPLATES.get(stage, PROMPT_TEMPLATES[HR]): the template is named *)
(* by its key, its text is the instruction of that stage's interviewer        *)
PROMPT_TEMPLATES_get(stage) ==
    IF stage.ty = "str" /\ "s" \in DOMAIN stage /\ stage.s \in STAGES THEN stage.s ELSE "HR"

(* prompt_template.format(job_role=..., question=..., answer=...) *)
format(template, job_role, question, answer) ==
    [template |-> template, job_role |-> job_role, question |-> question, answer |-> answer]

(* the [:100] of the degraded feedback *)
FragmentLen == 100

Head100(text) == SubSeq(text, 1, IF Len(text) < FragmentLen THEN Len(text) ELSE FragmentLen)

StarFlags(s, t, a, r) ==
    PyDict(<<KV("situation", PyBool(s)), KV("task", PyBool(t)),
             KV("action", PyBool(a)), KV("result", PyBool(r))>>)

MOCK_FEEDBACK == "Mock feedback: Jawaban baik, tapi tambah detail STAR."

(* a mock result whose flags are all set *)
MockParsed_all_set ==
    PyDict(<<KV("score", PyInt(4)),
             KV("feedback", PyStr(MOCK_FEEDBACK)),
             KV("star_elements_detected", StarFlags(TRUE, TRUE, TRUE, TRUE))>>)

(* the literal of the `if not model` branch *)
MockParsed ==
    PyDict(<<KV("score", PyInt(4)),
             KV("feedback", PyStr(MOCK_FEEDBACK)),
             KV("star_elements_detected", StarFlags(TRUE, TRUE, FALSE, TRUE))>>)

(* a degraded result that carries the flags of the mock result *)
DegradedParsed_mock_flags(gemini_output) ==
    PyDict(<<KV("score", PyInt(3)),
             KV("feedback", PyFStr(<<"Error parsing AI response: ", Head100(gemini_output),
                                     ". Coba lagi.">>)),
             KV("star_elements_detected", StarFlags(TRUE, TRUE, FALSE, TRUE))>>)

(* the literal of the except branch, for a reply text that was read *)
DegradedParsed(gemini_output) ==
    PyDict(<<KV("score", PyInt(3)),
             KV("feedback", PyFStr(<<"Error parsing AI response: ", Head100(gemini_output),
                                     ". Coba lagi.">>)),
             KV("star_elements_detected", StarFlags(FALSE, FALSE, FALSE, FALSE))>>)

(* ---------------------------------------------------------------- tables *)
NoModel == "None"
GeminiModel == "gemini-pro"

(* a row that is always given to the first user *)
Interview_first_user(id, user_id, job_role, stage) ==
    [id |-> id, user_id |-> 1, job_role |-> job_role, stage |-> stage, total_score |-> 0]

(* Interview(user_id=..., job_role=..., stage=...) with the column defaults *)
Interview(id, user_id, job_role, stage) ==
    [id |-> id, user_id |-> user_id, job_role |-> job_role, stage |-> stage, total_score |-> 0]

(* Interview.query.get(interview_id): the row, or no row *)
Interview_query_get(interview_id) == {i \in interviews : i.id = interview_id}

(* a row whose flags are read under a misspelt key *)
Answer_wrong_key(id, interview_id, question, answer, parsed, stage) ==
    [id |-> id,
     interview_id |-> interview_id,
     question |-> question,
     answer_text |-> answer,
     score |-> DictGet(parsed.items, "score", PyInt(0)),
     feedback |-> DictGet(parsed.items, "feedback", PyStr("")),
     star_detected |-> json_dumps(DictGet(parsed.items, "star_elements", PyDict(<<>>))),
     stage |-> stage]

(* Answer(interview_id=..., question=..., ...) built from the evaluation *)
Answer(id, interview_id, question, answer, parsed, stage) ==
    [id |-> id,
     interview_id |-> interview_id,
     question |-> question,
     answer_text |-> answer,
     score |-> DictGet(parsed.items, "score", PyInt(0)),
     feedback |-> DictGet(parsed.items, "feedback", PyStr("")),
     star_detected |-> json_dumps(DictGet(parsed.items, "star_elements_detected", PyDict(<<>>))),
     stage |-> stage]

(* db.session.add(new_answer); db.session.commit() *)
Persist(table, row) == Append(table, row)

NoCall == [made |-> FALSE]

Init ==
    /\ interviews = {}
    /\ answers = <<>>
    /\ model \in {NoModel, GeminiModel}
    /\ req = [handler |-> "none"]
    /\ call = NoCall
    /\ resp = [handler |-> "none", status |-> 0, kind |-> "none"]

(* -------------------------------------------------------------- handlers *)
(* GET / *)
index_get(u) ==
    /\ req' = [handler |-> "index", method |-> "GET", user |-> u]
    /\ resp' = [handler |-> "index", status |-> 200, kind |-> "render",
                body |-> [template |-> "index.html", job_roles |-> JOB_ROLES]]
    /\ call' = NoCall
    /\ UNCHANGED <<interviews, answers, model>>

(* a role check that lets every posted role through *)
ValidRole_any(job_role) == TRUE

ValidRole(job_role) == job_role \in JOB_ROLES

(* POST / with the form `form` *)
index_post(u, form) ==
    /\ req' = [handler |-> "index", method |-> "POST", user |-> u, form |-> form]
    /\ call' = NoCall
    /\ IF ~HasKey(form, "job_role")
       THEN (* request.form['job_role'] raises BadRequestKeyError *)
            /\ resp' = [handler |-> "index", status |-> 400, kind |-> "error",
                        body |-> "BadRequestKeyError"]
            /\ UNCHANGED <<interviews, answers, model>>
       ELSE LET job_role == DictGet(form, "job_role", "") IN
            IF ~ValidRole(job_role)
            THEN /\ resp' = [handler |-> "index", status |-> 302, kind |-> "redirect",
                             body |-> [flash |-> "Job role invalid.", location |-> "index"]]
                 /\ UNCHANGED <<interviews, answers, model>>
            ELSE LET stage == "HR"
                     interview == Interview(Cardinality(interviews) + 1, u, job_role, stage)
                 IN /\ Cardinality(interviews) < MaxInterviews
                    /\ interviews' = interviews \cup {interview}
                    /\ resp' = IF job_role \in DOMAIN QUESTIONS[stage]
                               THEN [handler |-> "index", status |-> 200, kind |-> "render",
                                     body |-> [template |-> "index.html",
                                               job_role |-> job_role,
                                               stage |-> stage,
                                               question |-> QUESTIONS[stage][job_role],
                                               interview_id |-> interview.id,
                                               job_roles |-> JOB_ROLES]]
                               ELSE (* QUESTIONS[stage][job_role] raises after the commit *)
                                    [handler |-> "index", status |-> 500, kind |-> "error",
                                     body |-> "KeyError"]
                    /\ UNCHANGED <<answers, model>>

(* a presence check that forgets job_role *)
MissingData_two(question, answer, job_role) == ~(Truthy(question) /\ Truthy(answer))

(* `not all([question, answer, job_role])` *)
MissingData(question, answer, job_role) ==
    ~(Truthy(question) /\ Truthy(answer) /\ Truthy(job_role))

(* the try/except around the provider call: what the call returned or raised *)
(* decides `parsed`, or the exception that leaves the handler                 *)
Evaluate(outcome) ==
    IF outcome.kind = "raise"
    THEN (* the except branch reads gemini_output, which was never bound *)
         [exc |-> "UnboundLocalError", parsed |-> PyNone]
    ELSE LET gemini_output == strip(outcome.text)
             r == json_loads(gemini_output)
         IN IF r.ok
            THEN [exc |-> "", parsed |-> r.val]
            ELSE [exc |-> "", parsed |-> DegradedParsed(gemini_output)]

(* an ownership check that only looks whether the interview exists *)
Owned_any(interview_id, u) == Interview_query_get(interview_id) # {}

(* `if interview and interview.user_id == current_user.id` *)
Owned(interview_id, u) == \E i \in Interview_query_get(interview_id) : i.user_id = u

Error500(exc) ==
    [handler |-> "submit_answer", status |-> 500, kind |-> "error", body |-> exc]

Json(status, body) ==
    [handler |-> "submit_answer", status |-> status, kind |-> "json", body |-> body]

(* return jsonify(parsed) *)
Reply(parsed) == Json(200, parsed)

(* a handler that moves the interview to the next stage when it stores an answer *)
Store_advancing(u, interview_id, stage, question, answer, parsed) ==
    IF \E i \in interviews : i.id = interview_id /\ i.user_id = u
    THEN /\ parsed.ty = "dict"
         /\ Len(answers) < MaxAnswers
         /\ answers' = Persist(answers, Answer(Len(answers) + 1, interview_id, question, answer,
                                               parsed, stage))
         /\ interviews' = {IF i.id = interview_id THEN [i EXCEPT !.stage = "Behavioral"] ELSE i :
                              i \in interviews}
         /\ resp' = Json(200, parsed)
         /\ UNCHANGED model
    ELSE /\ resp' = Json(200, parsed)
         /\ UNCHANGED <<interviews, answers, model>>

(* the handler from the evaluation on: the ownership check, the new row, the reply *)
Store(u, interview_id, stage, question, answer, parsed) ==
    IF Owned(interview_id, u)
    THEN IF parsed.ty # "dict"
         THEN (* parsed.get raises AttributeError *)
              /\ resp' = Error500("AttributeError")
              /\ UNCHANGED <<interviews, answers, model>>
         ELSE LET new_answer == Answer(Len(answers) + 1, interview_id, question, answer,
                                       parsed, stage)
              IN /\ Len(answers) < MaxAnswers
                 /\ answers' = Persist(answers, new_answer)
                 /\ resp' = Reply(parsed)
                 /\ UNCHANGED <<interviews, model>>
    ELSE /\ resp' = Reply(parsed)
         /\ UNCHANGED <<interviews, answers, model>>

(* POST /submit_answer/<interview_id> with the JSON object `data`; `outcome` is *)
(* what the provider does if it is called                                       *)
submit_answer(u, interview_id, data, outcome) ==
    LET stage == DictGet(data.items, "stage", PyStr("HR"))
        question == DictGet(data.items, "question", PyNone)
        answer == DictGet(data.items, "answer", PyNone)
        job_role == DictGet(data.items, "job_role", PyNone)
    IN /\ req' = [handler |-> "submit_answer", user |-> u, interview_id |-> interview_id,
                  data |-> data]
       /\ IF MissingData(question, answer, job_role)
          THEN /\ call' = NoCall
               /\ resp' = Json(400, PyDict(<<KV("error", PyStr("Missing data"))>>))
               /\ UNCHANGED <<interviews, answers, model>>
          ELSE IF model = NoModel
          THEN /\ call' = NoCall
               /\ Store(u, interview_id, stage, question, answer, MockParsed)
          ELSE LET prompt == format(PROMPT_TEMPLATES_get(stage), job_role, question, answer)
                   e == Evaluate(outcome)
               IN /\ call' = [made |-> TRUE, prompt |-> prompt, outcome |-> outcome]
                  /\ IF e.exc # ""
                     THEN /\ resp' = Error500(e.exc)
                          /\ UNCHANGED <<interviews, answers, model>>
                     ELSE Store(u, interview_id, stage, question, answer, e.parsed)

(* ---------------------------------------------------------------- inputs *)
Users == {1, 2}

Form(job_role) == <<KV("job_role", job_role)>>

(* the forms a client posts: each role, a role outside JOB_ROLES, no field at all *)
AllForms == {Form(r) : r \in JOB_ROLES \cup {"Chef"}} \cup {<<>>}
FewForms == {Form("Software Engineer"), Form("Chef")}

Field(k, o) == IF o = <<>> THEN <<>> ELSE <<KV(k, PyStr(o[1]))>>

(* a JSON body; each field is <<>> (absent) or <<text>> *)
Body(stage, question, answer, job_role) ==
    PyDict(Field("stage", stage) \o Field("question", question)
           \o Field("answer", answer) \o Field("job_role", job_role))

StageInputs == {<<>>, <<"">>, <<"HR">>, <<"Behavioral">>, <<"Technical">>, <<"Final">>}
Defects == {<<>>, <<"">>}

Q1 == QUESTIONS["HR"]["Software Engineer"]
A1 == "Saya suka membangun produk."
R1 == "Software Engineer"
Q2 == QUESTIONS["Behavioral"]["IT Support"]
A2 == "Server mati, saya pulihkan dalam satu jam."

ValidBody == Body(<<"HR">>, <<Q1>>, <<A1>>, <<R1>>)

(* every stage with the other fields given (once with a role outside JOB_ROLES); *)
(* each single field absent or empty; two fields absent; the empty object        *)
AllBodies ==
    {Body(s, <<Q1>>, <<A1>>, <<R1>>) : s \in StageInputs}
    \cup {Body(<<"Technical">>, <<Q1>>, <<A1>>, <<"Chef">>),
          Body(<<"Behavioral">>, <<Q2>>, <<A2>>, <<"IT Support">>)}
    \cup {Body(<<"HR">>, d, <<A1>>, <<R1>>) : d \in Defects}
    \cup {Body(<<"HR">>, <<Q1>>, d, <<R1>>) : d \in Defects}
    \cup {Body(<<"HR">>, <<Q1>>, <<A1>>, d) : d \in Defects}
    \cup {Body(<<>>, <<>>, <<A1>>, <<>>), PyDict(<<>>)}
FewBodies == {ValidBody, PyDict(<<>>)}
StageBodies == {Body(<<"Behavioral">>, <<Q1>>, <<A1>>, <<R1>>), Body(<<>>, <<Q1>>, <<>>, <<R1>>)}

FullReply ==
    <<P("{"), S("score"), P(":"), N(5), P(","),
      S("feedback"), P(":"), S("Jawaban kuat."), P(","),
      S("star_elements_detected"), P(":"),
      P("{"), S("situation"), P(":"), W("true"), P(","), S("task"), P(":"), W("false"), P(","),
      S("action"), P(":"), W("true"), P(","), S("result"), P(":"), W("false"), P("}"),
      P("}")>>
PartialReply == <<P("{"), S("feedback"), P(":"), S("Kurang detail."), P("}"), WS>>
EmptyObjectReply == <<P("{"), P("}")>>
ListReply == <<P("["), N(3), P("]")>>
ProseReply == <<W("Berikut"), WS, W("penilaiannya:"), WS>> \o FullReply \o <<WS>>
CutReply == <<WS, P("{"), S("score"), P(":")>>
BlankReply == <<WS>>
LongReply == [i \in 1..(FragmentLen + 2) |-> IF i = 1 THEN WS ELSE W("maaf")]

Raises == [kind |-> "raise"]
Returns(text) == [kind |-> "text", text |-> text]

(* what the provider does: the call or the read of its text raises, or a text comes back *)
AllOutcomes ==
    {Raises} \cup {Returns(t) : t \in {FullReply, PartialReply, EmptyObjectReply, ListReply,
                                       ProseReply, CutReply, BlankReply, LongReply}}
FewOutcomes == {Raises, Returns(FullReply), Returns(ProseReply)}
OneOutcome == {Returns(FullReply)}

InterviewIds == 1..(MaxInterviews + 1)

NextOver(users, forms, bodies, outcomes) ==
    \/ \E u \in users : index_get(u)
    \/ \E u \in users, form \in forms : index_post(u, form)
    \/ \E u \in users, interview_id \in InterviewIds, data \in bodies, outcome \in outcomes :
          submit_answer(u, interview_id, data, outcome)

(* two users and every form, few bodies and provider outcomes *)
Next == NextOver(Users, AllForms, FewBodies, FewOutcomes)
Spec == Init /\ [][Next]_vars

(* every body, one user, few forms, one provider outcome *)
NextBody == NextOver({1}, FewForms, AllBodies, OneOutcome)
SpecBody == Init /\ [][NextBody]_vars

(* every provider outcome, one user, few forms and bodies *)
NextEval == NextOver({1}, FewForms, StageBodies, AllOutcomes)
SpecEval == Init /\ [][NextEval]_vars

(* ---------------------------------------------------------------- claims *)
IsStart(r) == r.handler = "index" /\ r.method = "POST" /\ HasKey(r.form, "job_role")
PostedRole(r) == DictGet(r.form, "job_role", "")
IsSubmit(r) == r.handler = "submit_answer"
Given(r, k) == Truthy(DictGet(r.data.items, k, PyNone))
OwnedBefore(r) == \E i \in interviews : i.id = r.interview_id /\ i.user_id = r.user
NewRows == {answers'[k] : k \in (Len(answers) + 1)..Len(answers')}

(* C1: a start request whose job_role is outside JOB_ROLES is turned away with *)
(* the "Job role invalid." flash and leaves the Interview rows as they were,   *)
(* and no Interview row ever has a role outside JOB_ROLES.                     *)
C1_InvalidRoleCreatesNoInterview ==
    [][/\ (IsStart(req') /\ PostedRole(req') \notin JOB_ROLES)
            => /\ resp'.kind = "redirect"
               /\ resp'.body.flash = "Job role invalid."
               /\ interviews' = interviews
       /\ \A i \in interviews' : i.job_role \in JOB_ROLES]_vars

C1_Witness ==
    /\ IsStart(req) /\ PostedRole(req) = "Chef"
    /\ resp.kind = "redirect"
    /\ interviews # {}

(* C2: every Answer row references an existing Interview, a new row references *)
(* the interview of the request that made it and that interview belongs to the *)
(* requesting user; a request for a missing interview or for another user's    *)
(* interview stores no row.                                                    *)
C2_AnswerBelongsToRequester ==
    [][/\ \A a \in NewRows :
            /\ IsSubmit(req')
            /\ a.interview_id = req'.interview_id
            /\ \E i \in interviews' : i.id = a.interview_id /\ i.user_id = req'.user
       /\ \A k \in 1..Len(answers') : \E i \in interviews' : i.id = answers'[k].interview_id
       /\ \A i \in interviews : i \in interviews'
       /\ \A k \in 1..Len(answers) : k <= Len(answers') /\ answers'[k] = answers[k]
       /\ (IsSubmit(req') /\ ~OwnedBefore(req')) => answers' = answers]_vars

C2_Witness ==
    /\ answers # <<>>
    /\ IsSubmit(req) /\ req.user = 2 /\ resp.status = 200
    /\ \E i \in interviews : i.id = req.interview_id /\ i.user_id = 1

(* C9: a start request with a role of JOB_ROLES adds exactly one Interview row, *)
(* with a fresh id, owned by the requesting user, with that role and stage HR,  *)
(* and the page shows QUESTIONS["HR"] of that role and the new row's id.        *)
C9_StartCreatesOneInterview ==
    [][(IsStart(req') /\ PostedRole(req') \in JOB_ROLES)
         => \E row \in interviews' :
               /\ row \notin interviews
               /\ \A i \in interviews : i.id # row.id
               /\ interviews' = interviews \cup {row}
               /\ row.user_id = req'.user
               /\ row.job_role = PostedRole(req')
               /\ row.stage = "HR"
               /\ resp'.status = 200 /\ resp'.kind = "render"
               /\ resp'.body.stage = "HR"
               /\ resp'.body.job_role = PostedRole(req')
               /\ resp'.body.question = QUESTIONS["HR"][PostedRole(req')]
               /\ resp'.body.interview_id = row.id]_vars

C9_Witness ==
    /\ IsStart(req) /\ PostedRole(req) = "UI/UX Designer" /\ req.user = 2
    /\ resp.kind = "render"
    /\ resp.body.question
         = "Apa motivasi Anda untuk berkarir sebagai UI/UX Designer dan mengapa di sini?"
    /\ \E i \in interviews : i.user_id = 2 /\ i.job_role = "UI/UX Designer"

(* C10: no request removes or changes an Interview row, an answer request      *)
(* leaves the Interview rows exactly as they were, and every Interview row has *)
(* stage HR and total_score 0.                                                 *)
C10_InterviewsNeverChange ==
    [][/\ \A i \in interviews : i \in interviews'
       /\ IsSubmit(req') => interviews' = interviews
       /\ \A i \in interviews' : i.stage = "HR" /\ i.total_score = 0]_vars

C10_Witness ==
    /\ IsSubmit(req) /\ resp.status = 200
    /\ answers # <<>>
    /\ \E i \in interviews : i.id = answers[1].interview_id /\ i.stage = "HR"

(* the 400 reply of the presence check *)
MissingDataReply ==
    [handler |-> "submit_answer", status |-> 400, kind |-> "json",
     body |-> PyDict(<<KV("error", PyStr("Missing data"))>>)]

Flags(s, t, a, r) ==
    <<P("{"), S("situation"), P(":"), W(s), P(","), S("task"), P(":"), W(t), P(","),
      S("action"), P(":"), W(a), P(","), S("result"), P(":"), W(r), P("}")>>

LastRow == answers'[Len(answers')]
OneRowAdded ==
    /\ Len(answers') = Len(answers) + 1
    /\ LastRow.interview_id = req'.interview_id
    /\ LastRow.id = Len(answers')

(* C3, as stated: an answer request with stage, question, answer or job_role *)
(* absent or empty gets the 400 "Missing data" reply, calls no provider and  *)
(* stores no row.                                                            *)
C3_AnyOfFourFieldsRejected ==
    [][(IsSubmit(req') /\ \E k \in {"stage", "question", "answer", "job_role"} : ~Given(req', k))
         => /\ resp' = MissingDataReply
            /\ call' = NoCall
            /\ answers' = answers]_vars

(* C3, amended: an answer request with question, answer or job_role absent or *)
(* empty gets the 400 "Missing data" reply, calls no provider and stores no   *)
(* row; with these three given, an absent or empty stage is not an error.     *)
C3_MissingDataRejected ==
    [][IsSubmit(req')
         => /\ (\E k \in {"question", "answer", "job_role"} : ~Given(req', k))
                 => /\ resp' = MissingDataReply
                    /\ call' = NoCall
                    /\ answers' = answers /\ interviews' = interviews
            /\ (\A k \in {"question", "answer", "job_role"} : Given(req', k))
                 => resp'.status # 400]_vars

C3_Witness ==
    /\ IsSubmit(req) /\ resp = MissingDataReply
    /\ Given(req, "stage") /\ Given(req, "question") /\ Given(req, "answer")
    /\ ~HasKey(req.data.items, "job_role")
    /\ interviews # {}

(* C5: with no provider configured, an answer request with the fields given,   *)
(* for an interview of the requester, calls no provider and stores one row     *)
(* with score 4, the mock feedback and the flags true, true, false, true.      *)
C5_MockResultStored ==
    [][(/\ IsSubmit(req') /\ model = NoModel
        /\ \A k \in {"question", "answer", "job_role"} : Given(req', k)
        /\ OwnedBefore(req'))
         => /\ call' = NoCall
            /\ OneRowAdded
            /\ LastRow.score = PyInt(4)
            /\ LastRow.feedback = PyStr("Mock feedback: Jawaban baik, tapi tambah detail STAR.")
            /\ LastRow.star_detected = Flags("true", "true", "false", "true")]_vars

C5_Witness ==
    /\ model = NoModel /\ IsSubmit(req) /\ resp.status = 200 /\ ~call.made
    /\ req.data = Body(<<"Behavioral">>, <<Q2>>, <<A2>>, <<"IT Support">>)
    /\ answers # <<>> /\ answers[1].question = PyStr(Q2) /\ answers[1].score = PyInt(4)

(* C8, as stated: the stage of every Interview row and of every Answer row is *)
(* HR, Behavioral or Technical.                                              *)
C8_StagesAreNamed ==
    /\ \A i \in interviews : i.stage \in STAGES
    /\ \A k \in 1..Len(answers) : answers[k].stage \in {PyStr(s) : s \in STAGES}

NotJsonTexts == {ProseReply, CutReply, BlankReply, LongReply}

(* C4, as stated: when the provider call raises or its reply does not parse, *)
(* the request is answered with the degraded result (score 3, no flag set),  *)
(* never with an error.                                                      *)
C4_ProviderFailureDegrades ==
    (/\ IsSubmit(req) /\ call.made
     /\ call.outcome.kind = "raise" \/ call.outcome.text \in NotJsonTexts)
      => /\ resp.status = 200
         /\ resp.body.ty = "dict"
         /\ DictGet(resp.body.items, "score", PyNone) = PyInt(3)
         /\ json_dumps(DictGet(resp.body.items, "star_elements_detected", PyNone))
              = Flags("false", "false", "false", "false")

(* C6: with a provider configured, an answer request with the fields given,  *)
(* for an interview of the requester, whose reply text is not JSON stores     *)
(* one row with score 3 and the four flags false.                             *)
C6_UnparseableReplyStoredDegraded ==
    [][(/\ IsSubmit(req') /\ call'.made
        /\ call'.outcome.kind = "text" /\ call'.outcome.text \in NotJsonTexts
        /\ OwnedBefore(req'))
         => /\ OneRowAdded
            /\ LastRow.score = PyInt(3)
            /\ LastRow.star_detected = Flags("false", "false", "false", "false")
            /\ resp'.status = 200]_vars

C6_Witness ==
    /\ IsSubmit(req) /\ call.made /\ call.outcome = Returns(LongReply)
    /\ \E i \in interviews : i.id = req.interview_id
    /\ answers # <<>>
    /\ answers[Len(answers)].score = PyInt(3)
    /\ Len(answers[Len(answers)].feedback.fmt[2]) = FragmentLen

(* what each well-formed reply says, key by key, the flags as they are written *)
Said(text) ==
    CASE text = FullReply ->
           <<KV("score", PyInt(5)), KV("feedback", PyStr("Jawaban kuat.")),
             KV("star_elements_detected", Flags("true", "false", "true", "false"))>>
      [] text = PartialReply -> <<KV("feedback", PyStr("Kurang detail."))>>
      [] OTHER -> <<>>

ObjectTexts == {FullReply, PartialReply, EmptyObjectReply}

ProviderReplied(texts) ==
    /\ IsSubmit(req') /\ call'.made
    /\ call'.outcome.kind = "text" /\ call'.outcome.text \in texts
    /\ OwnedBefore(req')

(* C7, as stated: a row stored for a well-formed reply carries the score, the *)
(* feedback and the flags that the reply says, never a default.              *)
C7_StoredExactlyAsReplied ==
    [][(ProviderReplied(ObjectTexts \cup {ListReply}) /\ Len(answers') > Len(answers))
         => LET said == Said(call'.outcome.text) IN
            /\ HasKey(said, "score") /\ LastRow.score = DictGet(said, "score", PyNone)
            /\ HasKey(said, "feedback") /\ LastRow.feedback = DictGet(said, "feedback", PyNone)
            /\ HasKey(said, "star_elements_detected")
            /\ LastRow.star_detected = DictGet(said, "star_elements_detected", <<>>)]_vars

(* C7, amended: for a reply that is a JSON object one row is stored, and each   *)
(* of score, feedback and flags is what the reply says when the reply has the   *)
(* key, and 0, "" and {} when it has not; a reply that is well-formed JSON but  *)
(* no object stores no row and the request ends in an error.                    *)
C7_StoredAsRepliedOrDefault ==
    [][/\ ProviderReplied(ObjectTexts)
            => LET said == Said(call'.outcome.text) IN
               /\ OneRowAdded
               /\ LastRow.score = DictGet(said, "score", PyInt(0))
               /\ LastRow.feedback = DictGet(said, "feedback", PyStr(""))
               /\ LastRow.star_detected
                    = DictGet(said, "star_elements_detected", <<P("{"), P("}")>>)
       /\ ProviderReplied({ListReply})
            => /\ answers' = answers
               /\ resp'.status = 500]_vars

C7_Witness ==
    /\ IsSubmit(req) /\ call.made /\ call.outcome = Returns(PartialReply)
    /\ \E i \in interviews : i.id = req.interview_id
    /\ answers # <<>>
    /\ answers[Len(answers)].score = PyInt(0)
    /\ answers[Len(answers)].feedback = PyStr("Kurang detail.")

====
